---------------------------- MODULE Spec2Model ----------------------------
(***************************************************************************)
(* A model of the Boulder Reservoir NMHC pipeline: reservoir_nmhc.py (the  *)
(* record types and the functions on them) and reservoir_loop.py (the      *)
(* asyncio tasks that load, match and integrate).                          *)
(*                                                                         *)
(* Conventions of the model                                                *)
(*  - A datetime is the number of seconds since 2017-01-01 00:00:00.       *)
(*  - A retention time is a whole number of hundredths of a minute, a peak *)
(*    area and a response factor are whole numbers, a mixing ratio is an   *)
(*    exact fraction <<num, den>> in lowest terms.  Floating-point         *)
(*    rounding is not modelled.                                            *)
(*  - Python's None is the empty sequence <<>>, a present value x is <<x>>.*)
(*  - The database is the tables dbLogs, dbLines, dbRuns, dbCrfs, dbData,  *)
(*    each ordered by id (the position in the sequence; a foreign key 0 is *)
(*    NULL).  An object read by a query is the                             *)
(*    stored row: a change to it is stored by session.commit().  A new     *)
(*    object is stored by session.merge() and commit(), and only by them.  *)
(*  - A task whose loop body raises is finished for good: asyncio keeps    *)
(*    the other tasks running and never restarts it.                       *)
(*  - Each task body between two awaits is one atomic action.              *)
(***************************************************************************)
EXTENDS Integers, Sequences, FiniteSets, TLC

VARIABLES
    logDir,        \* names of the log files in the log directory
    paFile,        \* NMHC_PA.LOG: the sequence of its raw lines
    start_line,    \* check_load_pas: lines of NMHC_PA.LOG already loaded
    pa_file_size,  \* check_load_pas: size of NMHC_PA.LOG at the last load
    dbLogs,        \* table logfiles
    dbLines,       \* table nmhclines (each row with its peaks)
    dbRuns,        \* table gcruns
    crfFile,       \* reservoir_CRFs.txt: its data lines, or MissingFile
    dbCrfs,        \* table crfs
    dbData,        \* table data
    task,          \* per task: "running", or "failed" once its body raised
    pc,            \* "loop" in the pipeline; "call"/"done" around one call
    callArgs,      \* the arguments of the function under call
    callRet        \* what the call returned

vars == <<logDir, paFile, start_line, pa_file_size, dbLogs, dbLines, dbRuns,
          crfFile, dbCrfs, dbData, task, pc, callArgs, callRet>>

pipelineVars == <<logDir, paFile, start_line, pa_file_size, dbLogs, dbLines,
                  dbRuns, crfFile, dbCrfs, dbData, task>>

\* What the calibration half of the pipeline reads and writes, and what a
\* call under test reads and writes.
crfVars == <<crfFile, dbCrfs, dbData>>

callVars == <<pc, callArgs, callRet>>

----------------------------------------------------------------------------
(* Generic helpers                                                         *)

None == <<>>

Abs(x) == IF x < 0 THEN -x ELSE x

Range(s) == {s[i] : i \in 1..Len(s)}

\* Sequences over S of length at most n.
SeqUpTo(S, n) == UNION {[1..k -> S] : k \in 0..n}

RECURSIVE Gcd(_, _)
Gcd(a, b) == IF b = 0 THEN a ELSE Gcd(b, a % b)

\* datetime(2017, month, day, hour, minute, second) in seconds since
\* 2017-01-01 00:00:00 (2017 is not a leap year).
DaysBeforeMonth == <<0, 31, 59, 90, 120, 151, 181, 212, 243, 273, 304, 334>>

Datetime(month, day, hour, minute, second) ==
    (((DaysBeforeMonth[month] + (day - 1)) * 24 + hour) * 60 + minute) * 60
        + second

Minutes(n) == n * 60

Hours(n) == n * 3600

----------------------------------------------------------------------------
(* reservoir_nmhc.py: constants                                            *)

\* sample_types.get(code, None)
sample_types(code) ==
    CASE code = 0 -> "zero"
      [] code = 1 -> "alt_standard"
      [] code = 2 -> "standard"
      [] code = 3 -> "alt_not_sure"
      [] code = 5 -> "ambient"
      [] OTHER    -> "None"

compound_list ==
    {"ethane", "ethene", "propane", "propene", "i-butane", "acetylene",
     "n-butane", "i-pentane", "n-pentane", "hexane", "isoprene", "benzene",
     "toluene", "ethyl-benzene", "m&p xylene", "o-xylene"}

\* compound_ecns, in tenths (1.9 is 19).
compound_ecns ==
    "ethane" :> 20 @@ "ethene" :> 19 @@ "propane" :> 30 @@ "propene" :> 29 @@
    "i-butane" :> 40 @@ "acetylene" :> 18 @@ "n-butane" :> 40 @@
    "i-pentane" :> 50 @@ "n-pentane" :> 50 @@ "hexane" :> 60 @@
    "isoprene" :> 48 @@ "benzene" :> 57 @@ "toluene" :> 67 @@
    "ethyl-benzene" :> 77 @@ "m&p xylene" :> 77 @@ "o-xylene" :> 77

\* The match tolerance of match_log_to_pa, dt.timedelta(minutes=11).
ToleranceMinutes == 11

----------------------------------------------------------------------------
(* reservoir_nmhc.py: find_closest_date, search_for_attr_value,            *)
(* match_log_to_pa                                                         *)

\* min(list_of_dates, key=lambda x: abs(x - date)): the index of the first
\* element of least key, scanning left to right from best index b.
RECURSIVE MinIndexFrom(_, _, _, _)
MinIndexFrom(date, list_of_dates, i, b) ==
    IF i > Len(list_of_dates) THEN b
    ELSE IF Abs(list_of_dates[i] - date) < Abs(list_of_dates[b] - date)
         THEN MinIndexFrom(date, list_of_dates, i + 1, i)
         ELSE MinIndexFrom(date, list_of_dates, i + 1, b)

\* find_closest_date(date, list_of_dates): [raised] when the list is empty
\* (min() of an empty sequence raises ValueError), else [match, delta].
find_closest_date(date, list_of_dates) ==
    IF Len(list_of_dates) = 0
    THEN [raised |-> TRUE, match |-> 0, delta |-> 0]
    ELSE LET m == list_of_dates[MinIndexFrom(date, list_of_dates, 2, 1)]
         IN  [raised |-> FALSE, match |-> m, delta |-> m - date]

\* search_for_attr_value(obj_list, 'date', value): the index of the first
\* object whose date is value, 0 for None.
RECURSIVE SearchDateFrom(_, _, _)
SearchDateFrom(obj_list, value, i) ==
    IF i > Len(obj_list) THEN 0
    ELSE IF obj_list[i].date = value THEN i
         ELSE SearchDateFrom(obj_list, value, i + 1)

search_for_date(obj_list, value) == SearchDateFrom(obj_list, value, 1)

\* abs(diff) < dt.timedelta(minutes=11)
WithinToleranceLe(diff) == Abs(diff) <= Minutes(ToleranceMinutes)

WithinTolerance(diff) == Abs(diff) < Minutes(ToleranceMinutes)

\* A run that names its records by their position in the lists instead of
\* by their row ids.
GcRunByPosition(log, i, line, j) ==
    [logfile_id |-> i, nmhcline_id |-> j, log |-> i, line |-> j,
     date_start |-> log.date, date_end |-> line.date,
     type |-> sample_types(log.sampletype)]

\* GcRun(LogFile, NmhcLine): the run refers to its two records by position
\* in the lists it was built from (log, line) and by row id (logfile_id,
\* nmhcline_id); date_end is the line's date, type comes from sample_types.
GcRun(log, i, line, j) ==
    [logfile_id |-> log.id, nmhcline_id |-> line.id, log |-> i, line |-> j,
     date_start |-> log.date, date_end |-> line.date,
     type |-> sample_types(log.sampletype)]

\* The for loop of match_log_to_pa from log i on.
RECURSIVE MatchLoop(_, _, _, _)
MatchLoop(LogFiles, NmhcLines, runs, i) ==
    IF i > Len(LogFiles)
    THEN [raised |-> FALSE, runs |-> runs, LogFiles |-> LogFiles,
          NmhcLines |-> NmhcLines]
    ELSE LET log        == LogFiles[i]
             nmhc_dates == [k \in 1..Len(NmhcLines) |-> NmhcLines[k].date]
             found      == find_closest_date(log.date, nmhc_dates)
         IN  IF found.raised
             THEN [raised |-> TRUE, runs |-> runs, LogFiles |-> LogFiles,
                   NmhcLines |-> NmhcLines]
             ELSE IF WithinTolerance(found.delta)
                  THEN LET j == search_for_date(NmhcLines, found.match)
                       IN  MatchLoop(
                             [LogFiles EXCEPT ![i].status = "married"],
                             [NmhcLines EXCEPT ![j].status = "married"],
                             Append(runs, GcRun(log, i, NmhcLines[j], j)),
                             i + 1)
                  ELSE MatchLoop(LogFiles, NmhcLines, runs, i + 1)

match_log_to_pa(LogFiles, NmhcLines) == MatchLoop(LogFiles, NmhcLines, <<>>, 1)

----------------------------------------------------------------------------
(* reservoir_nmhc.py: find_crf                                             *)

\* crf.date_start <= sample_date < crf.date_end
CrfCoversClosed(crf, sample_date) ==
    crf.date_start <= sample_date /\ sample_date <= crf.date_end

CrfCovers(crf, sample_date) ==
    crf.date_start <= sample_date /\ sample_date < crf.date_end

\* next((crf for crf in crfs if <covers>), None), scanning from index i.
RECURSIVE FindCrfFrom(_, _, _)
FindCrfFrom(crfs, sample_date, i) ==
    IF i > Len(crfs) THEN None
    ELSE IF CrfCovers(crfs[i], sample_date) THEN <<crfs[i]>>
         ELSE FindCrfFrom(crfs, sample_date, i + 1)

find_crf(crfs, sample_date) == FindCrfFrom(crfs, sample_date, 1)

----------------------------------------------------------------------------
(* reservoir_nmhc.py: GcRun.integrate                                      *)

\* The sample volume the mixing ratios are normalised to: * 600 * 1.
NormalizationVolume == 600

\* A fraction in lowest terms.
Fraction(num, den) == LET g == Gcd(num, den) IN <<num \div g, den \div g>>

\* (pa / (crf * ecn * sampletime * sampleflow1)) * 600 * 1, for a divisor
\* that is not zero; ecn is in tenths.
MixingRatioNoEcn(pa, crf, ecn, sampletime, sampleflow1) ==
    Fraction(pa * NormalizationVolume, crf * sampletime * sampleflow1)

MixingRatio(pa, crf, ecn, sampletime, sampleflow1) ==
    Fraction(pa * NormalizationVolume * 10, crf * ecn * sampletime * sampleflow1)

\* peak.name in compound_list and peak.name in self.crfs.compounds.keys()
Quantified(peak, crf) ==
    peak.name \in compound_list /\ peak.name \in DOMAIN crf.compounds

\* Datum(GcRun)
Datum(run) == [run |-> run, revision |-> 0, qc |-> 0, notes |-> None]

\* The for loop of integrate from peak i on: [raised] when a division by
\* zero raised ZeroDivisionError, and the peaks as they are then.
RECURSIVE IntegrateFrom(_, _, _)
IntegrateFrom(run, peaks, i) ==
    IF i > Len(peaks) THEN [raised |-> FALSE, peaks |-> peaks]
    ELSE LET peak == peaks[i]
             crf  == run.crfs[1]
         IN  IF Quantified(peak, crf)
             THEN IF crf.compounds[peak.name] * compound_ecns[peak.name]
                        * run.sampletime * run.sampleflow1 = 0
                  THEN [raised |-> TRUE, peaks |-> peaks]
                  ELSE IntegrateFrom(
                         run,
                         [peaks EXCEPT ![i].mr =
                             MixingRatio(peak.pa, crf.compounds[peak.name],
                                         compound_ecns[peak.name],
                                         run.sampletime, run.sampleflow1)],
                         i + 1)
             ELSE IntegrateFrom(run, peaks, i + 1)

\* GcRun.integrate(): [raised, datum, peaks], datum None or <<the Datum>>,
\* peaks the run's peaks afterwards.
integrate(run) ==
    IF run.crfs = None
    THEN [raised |-> FALSE, datum |-> None, peaks |-> run.peaks]
    ELSE IF run.type = "ambient" \/ run.type = "zero"
    THEN LET done == IntegrateFrom(run, run.peaks, 1)
         IN  [raised |-> done.raised,
              datum  |-> IF done.raised THEN None
                         ELSE <<Datum([run EXCEPT !.peaks = done.peaks])>>,
              peaks  |-> done.peaks]
    ELSE [raised |-> FALSE, datum |-> None, peaks |-> run.peaks]

----------------------------------------------------------------------------
(* reservoir_nmhc.py: fix_off_dates                                        *)

\* datetime(2017,3,12,2,0,0) < log.date < datetime(2017,4,11,13,0,0)
InLogWindowAsLines(date) ==
    Datetime(3, 12, 2, 0, 0) < date /\ date < Datetime(4, 27, 15, 5, 0)

InLogWindow(date) ==
    Datetime(3, 12, 2, 0, 0) < date /\ date < Datetime(4, 11, 13, 0, 0)

\* datetime(2017,3,12,2,0,0) < line.date < datetime(2017,4,27,15,5,0)
InLineWindow(date) ==
    Datetime(3, 12, 2, 0, 0) < date /\ date < Datetime(4, 27, 15, 5, 0)

\* fix_off_dates(LogFiles, []): the corrected list.
fix_off_dates_logs(LogFiles) ==
    [i \in DOMAIN LogFiles |->
        IF InLogWindow(LogFiles[i].date)
        THEN [LogFiles[i] EXCEPT !.date = @ - Hours(1)]
        ELSE LogFiles[i]]

\* fix_off_dates([], NmhcLines): the corrected list.
fix_off_dates_skipped(NmhcLines) == NmhcLines

fix_off_dates_lines(NmhcLines) ==
    [i \in DOMAIN NmhcLines |->
        IF InLineWindow(NmhcLines[i].date)
        THEN [NmhcLines[i] EXCEPT !.date = @ - Hours(1)]
        ELSE NmhcLines[i]]

----------------------------------------------------------------------------
(* reservoir_nmhc.py: GcRun.get_rt and check_c4_rts                        *)

\* The retention-time windows of check_c4_rts, in hundredths of a minute.
NbutLo == 42
NbutHi == 46
AcetLo == 30
AcetHi == 40

\* Peak(name, pa, rt): mr starts as None.
Peak(name, pa, rt) == [name |-> name, pa |-> pa, rt |-> rt, mr |-> None]

\* search_for_attr_value(peaks, 'name', value): the index of the first peak
\* of that name, 0 for None.
RECURSIVE SearchNameFrom(_, _, _)
SearchNameFrom(peaks, value, i) ==
    IF i > Len(peaks) THEN 0
    ELSE IF peaks[i].name = value THEN i
         ELSE SearchNameFrom(peaks, value, i + 1)

search_for_name(peaks, value) == SearchNameFrom(peaks, value, 1)

\* GcRun.get_rt(compound_name): next(peak.rt for peak in peaks if name
\* matches), None when there is none.
get_rt_first(peaks, compound_name) ==
    IF Len(peaks) = 0 THEN None ELSE <<peaks[1].rt>>

get_rt(peaks, compound_name) ==
    LET i == search_for_name(peaks, compound_name)
    IN  IF i = 0 THEN None ELSE <<peaks[i].rt>>

\* .42 < diff < .46 and .3 < diff < .4
InNbutWindow(diff) == NbutLo < diff /\ diff < NbutHi

InAcetWindow(diff) == AcetLo < diff /\ diff < AcetHi

\* max(pool, key=lambda peak: peak.pa) over the peaks at the indices of
\* pool (in list order): the first of largest area, from best index b.
RECURSIVE MaxPaFrom(_, _, _, _)
MaxPaFrom(peaks, pool, k, b) ==
    IF k > Len(pool) THEN b
    ELSE IF peaks[pool[k]].pa > peaks[b].pa
         THEN MaxPaFrom(peaks, pool, k + 1, pool[k])
         ELSE MaxPaFrom(peaks, pool, k + 1, b)

\* [peak for peak in run.peaks if <window>(peak.rt - ibut_rt)], as indices.
RECURSIVE PoolFrom(_, _, _, _)
PoolFrom(peaks, ibut_rt, acet, i) ==
    IF i > Len(peaks) THEN <<>>
    ELSE LET diff == peaks[i].rt - ibut_rt
             in   == IF acet THEN InAcetWindow(diff) ELSE InNbutWindow(diff)
             rest == PoolFrom(peaks, ibut_rt, acet, i + 1)
         IN  IF in THEN <<i>> \o rest ELSE rest

\* Rename the first peak of the list, if the window holds any peak.
RelabelFirst(peaks, ibut_rt, acet, name) ==
    LET pool == PoolFrom(peaks, ibut_rt, acet, 1)
    IN  IF Len(pool) = 0 THEN peaks
        ELSE [peaks EXCEPT ![1].name = name]

\* Rename the largest peak of the window, if the window holds any.
RelabelLargest(peaks, ibut_rt, acet, name) ==
    LET pool == PoolFrom(peaks, ibut_rt, acet, 1)
    IN  IF Len(pool) = 0 THEN peaks
        ELSE [peaks EXCEPT ![MaxPaFrom(peaks, pool, 2, pool[1])].name = name]

\* check_c4_rts(run), on the run's peak list: the peak list afterwards.
check_c4_rts(peaks) ==
    LET ibut_rt == get_rt(peaks, "i-butane")
        nbut_rt == get_rt(peaks, "n-butane")
        acet_rt == get_rt(peaks, "acetylene")
    IN  IF ibut_rt = None THEN peaks
        ELSE
        LET find_nbut == nbut_rt # None /\ ~InNbutWindow(nbut_rt[1] - ibut_rt[1])
            p1 == IF find_nbut
                  THEN [peaks EXCEPT ![search_for_name(peaks, "n-butane")].name = "-"]
                  ELSE peaks
            find_acet == acet_rt # None /\ ~InAcetWindow(acet_rt[1] - ibut_rt[1])
            p2 == IF find_acet
                  THEN [p1 EXCEPT ![search_for_name(p1, "acetylene")].name = "-"]
                  ELSE p1
            p3 == IF acet_rt = None \/ find_acet
                  THEN RelabelLargest(p2, ibut_rt[1], TRUE, "acetylene")
                  ELSE p2
            p4 == IF nbut_rt = None \/ find_nbut
                  THEN RelabelLargest(p3, ibut_rt[1], FALSE, "n-butane")
                  ELSE p3
        IN  p4

----------------------------------------------------------------------------
(* The raw inputs of the pipeline: the files the instrument writes          *)

\* How many log files the instrument drops, how many lines it appends, how
\* many data lines reservoir_CRFs.txt gets, and how many of all these are
\* written in total.
MaxLogFiles == 2
MaxPaLines == 2
MaxCrfLines == 2
MaxInputs == 4

\* How many inputs are written in total in the runs under fair scheduling.
MaxFairInputs == 3

\* reservoir_CRFs.txt before anybody wrote it.
MissingFile == [exists |-> FALSE, lines |-> <<>>]

InputsWritten == Cardinality(logDir) + Len(paFile) + Len(crfFile.lines)

\* A reference instant just outside the correction windows (01:30 on
\* 2017-03-12): a raw date one hour later lies inside both windows.
T0 == Datetime(3, 12, 1, 30, 0)

\* The log files that may appear, by name.  parsed = FALSE is a file
\* read_log_file gives None for.  The zero-air log b records a sample time
\* of 0; every log records a sample flow of SampleFlow1.
SampleFlow1 == 20

LogFileContents ==
    "a_l.txt" :> [parsed |-> TRUE, date |-> T0, sampletype |-> 5,
                  sampletime |-> 10] @@
    "b_l.txt" :> [parsed |-> TRUE, date |-> T0 + Hours(1) + Minutes(5),
                  sampletype |-> 0, sampletime |-> 0] @@
    "c_l.txt" :> [parsed |-> TRUE, date |-> T0 + Hours(1), sampletype |-> 2,
                  sampletime |-> 10] @@
    "d_l.txt" :> [parsed |-> FALSE, date |-> 0, sampletype |-> 0,
                  sampletime |-> 0] @@
    "e_l.txt" :> [parsed |-> TRUE, date |-> T0 + Hours(1) + Minutes(20),
                  sampletype |-> 5, sampletime |-> 10]

LogFileNames == DOMAIN LogFileContents

\* The raw lines that may be appended to NMHC_PA.LOG.  kind "ok" is a line
\* read_pa_line parses, "raises" one it raises on, "nopeaks" one it parses
\* to no peak and returns None for.  L5 is written outside the correction
\* window with the timestamp L1 has after its correction.
PaLineContents ==
    "L1" :> [kind |-> "ok", date |-> T0 + Hours(1) + Minutes(10),
             peaks |-> <<Peak("i-butane", 10, 500), Peak("acetylene", 5, 550),
                         Peak("-", 7, 535)>>] @@
    "L2" :> [kind |-> "ok", date |-> T0 + Hours(1) + Minutes(16),
             peaks |-> <<Peak("ethane", 1000, 300)>>] @@
    "L3" :> [kind |-> "raises", date |-> 0, peaks |-> <<>>] @@
    "L4" :> [kind |-> "nopeaks", date |-> 0, peaks |-> <<>>] @@
    "L5" :> [kind |-> "ok", date |-> T0 + Minutes(10),
             peaks |-> <<Peak("propane", 900, 400)>>]

PaLineNames == DOMAIN PaLineContents

\* read_log_file(filename): None, or the LogFile (status 'single').
read_log_file(filename) ==
    LET c == LogFileContents[filename]
    IN  IF c.parsed
        THEN <<[filename |-> filename, date |-> c.date,
                sampletype |-> c.sampletype, sampletime |-> c.sampletime,
                sampleflow1 |-> SampleFlow1, status |-> "single"]>>
        ELSE None

\* read_pa_line(line) for a line it does not raise on: None, or the
\* NmhcLine (status 'single').
read_pa_line(line) ==
    LET c == PaLineContents[line]
    IN  IF c.kind = "ok"
        THEN <<[date |-> c.date, peaklist |-> c.peaks, status |-> "single"]>>
        ELSE None

----------------------------------------------------------------------------
(* reservoir_loop.py: the tasks                                            *)

Tasks ==
    {"check_load_logs", "check_load_pas", "create_gc_runs", "load_crfs",
     "integrate_runs"}

Running(t) == task[t] = "running"

Fail(t) == task' = [task EXCEPT ![t] = "failed"]

\* The orders in which os.scandir may list the files of S.
Orders(S) ==
    {s \in [1..Cardinality(S) -> S] : \A i, j \in DOMAIN s : i # j => s[i] # s[j]}

IsSingle(row) == row.status = "single"

\* query(...).filter(status == 'single').order_by(id).all(): the single rows
\* of a table from row i on, in id order.
RECURSIVE SingleFrom(_, _)
SingleFrom(rows, i) ==
    IF i > Len(rows) THEN <<>>
    ELSE IF IsSingle(rows[i]) THEN <<rows[i]>> \o SingleFrom(rows, i + 1)
         ELSE SingleFrom(rows, i + 1)

SingleRows(rows) == SingleFrom(rows, 1)

\* A column declared unique=True holds no value twice.
UniqueDates(rows) ==
    \A i, j \in 1..Len(rows) : i # j => rows[i].date # rows[j].date

\* session.merge(item) of new rows: they get the next ids.
OverwriteRows(rows, items) == [i \in 1..Len(items) |-> [id |-> i] @@ items[i]]

MergeRows(rows, items) ==
    [i \in 1..(Len(rows) + Len(items)) |->
        IF i <= Len(rows) THEN rows[i]
        ELSE [id |-> i] @@ items[i - Len(rows)]]

\* The instrument writes a new log file into the log directory.
DropLogFile ==
    /\ pc = "loop"
    /\ Cardinality(logDir) < MaxLogFiles
    /\ InputsWritten < MaxInputs
    /\ \E f \in LogFileNames \ logDir : logDir' = logDir \cup {f}
    /\ UNCHANGED <<paFile, start_line, pa_file_size, dbLogs, dbLines, dbRuns,
                   task, crfVars, callVars>>

\* PeakSimple appends a line to NMHC_PA.LOG.
AppendPaLine ==
    /\ pc = "loop"
    /\ Len(paFile) < MaxPaLines
    /\ InputsWritten < MaxInputs
    /\ \E l \in PaLineNames : paFile' = Append(paFile, l)
    /\ UNCHANGED <<logDir, start_line, pa_file_size, dbLogs, dbLines, dbRuns,
                   task, crfVars, callVars>>

\* One pass of the loop of check_load_logs.
check_load_logs ==
    /\ pc = "loop"
    /\ Running("check_load_logs")
    /\ LET logs_in_db   == {dbLogs[i].filename : i \in 1..Len(dbLogs)}
           to_load      == logDir \ logs_in_db
       IN  IF logDir = {} \/ to_load = {}
           THEN UNCHANGED <<dbLogs, task>>
           ELSE \E logs_to_load \in Orders(to_load) :
                LET new_logs == [i \in DOMAIN logs_to_load |->
                                    read_log_file(logs_to_load[i])]
                IN  IF \E i \in DOMAIN new_logs : new_logs[i] = None
                    THEN \* fix_off_dates reads None.date: AttributeError
                         Fail("check_load_logs") /\ UNCHANGED dbLogs
                    ELSE LET fixed  == fix_off_dates_logs(
                                         [i \in DOMAIN new_logs |-> new_logs[i][1]])
                             merged == MergeRows(dbLogs, fixed)
                         IN  IF UniqueDates(merged)
                             THEN dbLogs' = merged /\ UNCHANGED task
                             ELSE \* commit(): IntegrityError on logfiles.date
                                  Fail("check_load_logs") /\ UNCHANGED dbLogs
    /\ UNCHANGED <<logDir, paFile, start_line, pa_file_size, dbLines, dbRuns,
                   crfVars, callVars>>

\* The lines of contents[start_line:] that read_pa_line does not raise on,
\* each as read_pa_line returns it.
RECURSIVE ReadPaLinesFrom(_, _)
ReadPaLinesFrom(contents, i) ==
    IF i > Len(contents) THEN <<>>
    ELSE IF PaLineContents[contents[i]].kind = "raises"
         THEN ReadPaLinesFrom(contents, i + 1)
         ELSE <<read_pa_line(contents[i])>> \o ReadPaLinesFrom(contents, i + 1)

\* item.date not in line_dates
LineDateIsNewAlways(item, line_dates) == TRUE

LineDateIsNew(item, line_dates) == item.date \notin Range(line_dates)

\* for item in new_lines: merge the ones whose date is new.
RECURSIVE MergeLinesFrom(_, _, _, _)
MergeLinesFrom(new_lines, k, line_dates, rows) ==
    IF k > Len(new_lines) THEN rows
    ELSE IF LineDateIsNew(new_lines[k], line_dates)
         THEN MergeLinesFrom(new_lines, k + 1,
                             Append(line_dates, new_lines[k].date),
                             MergeRows(rows, <<new_lines[k]>>))
         ELSE MergeLinesFrom(new_lines, k + 1, line_dates, rows)

\* One pass of the loop of check_load_pas.  The size of the file is its
\* number of lines; a missing file is the empty one (both leave all as is).
check_load_pas ==
    /\ pc = "loop"
    /\ Running("check_load_pas")
    /\ LET line_dates    == [i \in 1..Len(dbLines) |-> dbLines[i].date]
           new_file_size == Len(paFile)
       IN  IF new_file_size > pa_file_size
           THEN LET contents  == paFile
                    new_lines == ReadPaLinesFrom(contents, start_line + 1)
                IN  IF \E i \in DOMAIN new_lines : new_lines[i] = None
                    THEN \* fix_off_dates reads None.date: AttributeError
                         /\ Fail("check_load_pas")
                         /\ UNCHANGED <<dbLines, start_line, pa_file_size>>
                    ELSE IF Len(new_lines) = 0
                    THEN UNCHANGED <<dbLines, start_line, pa_file_size, task>>
                    ELSE LET fixed == fix_off_dates_lines(
                                        [i \in DOMAIN new_lines |-> new_lines[i][1]])
                         IN  /\ dbLines' = MergeLinesFrom(fixed, 1, line_dates, dbLines)
                             /\ start_line' = Len(contents)
                             /\ pa_file_size' = new_file_size
                             /\ UNCHANGED task
           ELSE UNCHANGED <<dbLines, start_line, pa_file_size, task>>
    /\ UNCHANGED <<logDir, paFile, dbLogs, dbRuns, crfVars, callVars>>

\* run.date_end not in run_dates
RunDateIsNewAlways(run, run_dates) == TRUE

RunDateIsNew(run, run_dates) == run.date_end \notin Range(run_dates)

\* for run in GcRuns: the new runs are passed through check_c4_rts (which
\* renames peaks of the run's line) and merged.
RECURSIVE MergeRunsFrom(_, _, _, _, _)
MergeRunsFrom(GcRuns, k, run_dates, lines, runs) ==
    IF k > Len(GcRuns) THEN [lines |-> lines, runs |-> runs]
    ELSE LET run == GcRuns[k]
         IN  IF RunDateIsNew(run, run_dates)
             THEN MergeRunsFrom(
                    GcRuns, k + 1, Append(run_dates, run.date_end),
                    [lines EXCEPT ![run.nmhcline_id].peaklist = check_c4_rts(@)],
                    MergeRows(runs, <<[logfile_id |-> run.logfile_id,
                                       nmhcline_id |-> run.nmhcline_id,
                                       type |-> run.type,
                                       crf_id |-> 0, data_id |-> 0]>>))
             ELSE MergeRunsFrom(GcRuns, k + 1, run_dates, lines, runs)

\* The status each row has after the matcher changed the queried objects.
WithStatuses(rows, objs) ==
    [i \in 1..Len(rows) |->
        IF \E k \in 1..Len(objs) : objs[k].id = i
        THEN [rows[i] EXCEPT !.status =
                 objs[CHOOSE k \in 1..Len(objs) : objs[k].id = i].status]
        ELSE rows[i]]

\* One pass of the loop of create_gc_runs.  (\E x \in {e} names the value
\* of e, here and in the other tasks.)
create_gc_runs ==
    /\ pc = "loop"
    /\ Running("create_gc_runs")
    /\ LET NmhcLines == SingleRows(dbLines)
           LogFiles  == SingleRows(dbLogs)
           run_dates == [i \in 1..Len(dbRuns) |->
                            dbLines[dbRuns[i].nmhcline_id].date]
       IN  \E matched \in {match_log_to_pa(LogFiles, NmhcLines)} :
           IF matched.raised
           THEN \* ValueError out of find_closest_date: nothing is committed
                Fail("create_gc_runs") /\ UNCHANGED <<dbLogs, dbLines, dbRuns>>
           ELSE \E merged \in {MergeRunsFrom(
                                matched.runs, 1, run_dates,
                                WithStatuses(dbLines, matched.NmhcLines), dbRuns)} :
                    /\ dbLogs' = WithStatuses(dbLogs, matched.LogFiles)
                    /\ dbLines' = merged.lines
                    /\ dbRuns' = merged.runs
                    /\ UNCHANGED task
    /\ UNCHANGED <<logDir, paFile, start_line, pa_file_size, crfVars,
                   callVars>>

----------------------------------------------------------------------------
(* reservoir_nmhc.py: read_crf_data; reservoir_loop.py: load_crfs and      *)
(* integrate_runs                                                          *)

\* The header of reservoir_CRFs.txt after its three date columns: keys.
CrfHeader == <<"ethane", "propane", "i-butane", "acetylene">>

\* The data lines that may be written to reservoir_CRFs.txt: the two dates
\* and the fields after the date columns (ls[3:]).  K2 has the date_start
\* of K1 and the date_end of K3; K3 has fewer fields than the header has
\* keys; the date_end of K4 is earlier than its date_start.
CrfLineContents ==
    "K1" :> [date_start |-> Datetime(3, 1, 0, 0, 0),
             date_end   |-> Datetime(4, 1, 0, 0, 0),
             fields     |-> <<2, 3, 4, 5>>] @@
    "K2" :> [date_start |-> Datetime(3, 1, 0, 0, 0),
             date_end   |-> Datetime(5, 1, 0, 0, 0),
             fields     |-> <<4, 6, 8, 10>>] @@
    "K3" :> [date_start |-> Datetime(4, 1, 0, 0, 0),
             date_end   |-> Datetime(5, 1, 0, 0, 0),
             fields     |-> <<2, 3>>] @@
    "K4" :> [date_start |-> Datetime(3, 20, 0, 0, 0),
             date_end   |-> Datetime(3, 5, 0, 0, 0),
             fields     |-> <<4, 6, 8, 10>>]

CrfLineNames == DOMAIN CrfLineContents

\* for index, (key, rf) in enumerate(zip(keys, ls[3:])):
\*     compounds[key] = float(rf)
\* the dict after the loop over one line: zip stops at the shorter list, the
\* keys the line has no field for keep what they held.
ZipUpdate(compounds, keys, fields) ==
    LET n   == IF Len(keys) < Len(fields) THEN Len(keys) ELSE Len(fields)
        set == {keys[i] : i \in 1..n}
    IN  [key \in DOMAIN compounds \cup set |->
            IF key \in set
            THEN fields[CHOOSE i \in 1..n : keys[i] = key]
            ELSE compounds[key]]

\* compounds = dict() before the loop over the lines; the dict as it is
\* when the Crf of data line k is built.
RECURSIVE CompoundsAt(_, _)
CompoundsAt(lines, k) ==
    IF k = 0 THEN [key \in {} |-> 0]
    ELSE ZipUpdate(CompoundsAt(lines, k - 1), CrfHeader,
                   CrfLineContents[lines[k]].fields)

\* read_crf_data(filename): None when the file is not found, else the list
\* of Crf objects, one per data line.  Crf.compounds is a MutableDict
\* column: the assignment in Crf.__init__ stores a MutableDict built from
\* the dict as it is then, so what later lines write to the dict does not
\* reach the Crf.
read_crf_data(file) ==
    IF ~file.exists THEN None
    ELSE <<[i \in 1..Len(file.lines) |->
              [date_start |-> CrfLineContents[file.lines[i]].date_start,
               date_end   |-> CrfLineContents[file.lines[i]].date_end,
               compounds  |-> CompoundsAt(file.lines, i)]]>>

\* Somebody writes reservoir_CRFs.txt or adds a line to it.
WriteCrfLine ==
    /\ pc = "loop"
    /\ Len(crfFile.lines) < MaxCrfLines
    /\ InputsWritten < MaxInputs
    /\ \E l \in CrfLineNames :
          crfFile' = [exists |-> TRUE, lines |-> Append(crfFile.lines, l)]
    /\ UNCHANGED <<logDir, paFile, start_line, pa_file_size, dbLogs, dbLines,
                   dbRuns, dbCrfs, dbData, task, callVars>>

\* The task ends with the exception exc.
Raise(t, exc) == task' = [task EXCEPT ![t] = exc]

\* rf.date_start not in crf_dates
CrfDateIsNewAlways(rf, crf_dates) == TRUE

CrfDateIsNew(rf, crf_dates) == rf.date_start \notin Range(crf_dates)

\* for rf in Crfs: merge the ones whose date_start is new.
RECURSIVE MergeCrfsFrom(_, _, _, _)
MergeCrfsFrom(Crfs, k, crf_dates, rows) ==
    IF k > Len(Crfs) THEN rows
    ELSE IF CrfDateIsNew(Crfs[k], crf_dates)
         THEN MergeCrfsFrom(Crfs, k + 1, Append(crf_dates, Crfs[k].date_start),
                            MergeRows(rows, <<Crfs[k]>>))
         ELSE MergeCrfsFrom(Crfs, k + 1, crf_dates, rows)

\* crfs.date_start and crfs.date_end are declared unique=True.
UniqueCrfStarts(rows) ==
    \A i, j \in 1..Len(rows) : i # j => rows[i].date_start # rows[j].date_start

UniqueCrfEnds(rows) ==
    \A i, j \in 1..Len(rows) : i # j => rows[i].date_end # rows[j].date_end

\* One pass of the loop of load_crfs.
load_crfs ==
    /\ pc = "loop"
    /\ Running("load_crfs")
    /\ LET Crfs      == read_crf_data(crfFile)
           crf_dates == [i \in 1..Len(dbCrfs) |-> dbCrfs[i].date_start]
       IN  IF Crfs = None
           THEN \* for rf in None: TypeError
                Raise("load_crfs", "TypeError") /\ UNCHANGED dbCrfs
           ELSE \E merged \in {MergeCrfsFrom(Crfs[1], 1, crf_dates, dbCrfs)} :
                    IF ~UniqueCrfStarts(merged)
                    THEN \* commit(): IntegrityError on crfs.date_start
                         /\ Raise("load_crfs", "IntegrityError date_start")
                         /\ UNCHANGED dbCrfs
                    ELSE IF ~UniqueCrfEnds(merged)
                    THEN \* commit(): IntegrityError on crfs.date_end
                         /\ Raise("load_crfs", "IntegrityError date_end")
                         /\ UNCHANGED dbCrfs
                    ELSE dbCrfs' = merged /\ UNCHANGED task
    /\ UNCHANGED <<logDir, paFile, start_line, pa_file_size, dbLogs, dbLines,
                   dbRuns, crfFile, dbData, callVars>>

\* query(GcRun).filter(GcRun.data_id == None).order_by(GcRun.id).all(), as
\* the ids of the rows from row i on.
RECURSIVE UnintegratedFrom(_, _)
UnintegratedFrom(runs, i) ==
    IF i > Len(runs) THEN <<>>
    ELSE IF runs[i].data_id = 0 THEN <<i>> \o UnintegratedFrom(runs, i + 1)
         ELSE UnintegratedFrom(runs, i + 1)

\* The GcRun object of a stored row: its proxies read the log's sampletime
\* and sampleflow1 and the line's peaks.
RunObject(row, crf, logs, lines) ==
    [crfs |-> crf, type |-> row.type,
     sampletime |-> logs[row.logfile_id].sampletime,
     sampleflow1 |-> logs[row.logfile_id].sampleflow1,
     peaks |-> lines[row.nmhcline_id].peaklist]

\* run.crfs = find_crf(session, run.date_end) and run.integrate() for one
\* stored row: the id of the Crf found, 0 for None, and what integrate
\* returns.
IntegrateStep(row, logs, lines) ==
    LET crf == find_crf(dbCrfs, lines[row.nmhcline_id].date)
    IN  [crf_id |-> IF crf = None THEN 0 ELSE crf[1].id,
         done   |-> integrate(RunObject(row, crf, logs, lines))]

\* for run in GcRuns: run.crfs = find_crf(...); session.commit();
\* data.append(run.integrate()), from the k-th un-integrated run on.  runs
\* and lines are the tables as the session holds them; data lists, per run,
\* the id of the run its Datum was built from, 0 for None.  When integrate
\* raises, runs and lines are the tables as last committed.
RECURSIVE IntegrateLoop(_, _, _, _, _)
\* The loop once run ids[k] gave step.
IntegrateRest(ids, k, runs, lines, data, step) ==
    LET r     == ids[k]
        runs1 == [runs EXCEPT ![r].crf_id = step.crf_id]
    IN  IF step.done.raised
        THEN [raised |-> TRUE, runs |-> runs1, lines |-> lines, data |-> data]
        ELSE IntegrateLoop(
               ids, k + 1, runs1,
               [lines EXCEPT ![runs[r].nmhcline_id].peaklist = step.done.peaks],
               Append(data, IF step.done.datum = None THEN 0 ELSE r))

IntegrateLoop(ids, k, runs, lines, data) ==
    IF k > Len(ids)
    THEN [raised |-> FALSE, runs |-> runs, lines |-> lines, data |-> data]
    ELSE CHOOSE out \in {IntegrateRest(ids, k, runs, lines, data, step) :
                            step \in {IntegrateStep(runs[ids[k]], dbLogs, lines)}}
                : TRUE

\* datum.date_end not in data_dates
DatumDateIsNew(date_end, data_dates) == date_end \notin Range(data_dates)

\* for datum in data: merge the ones that are not None and whose date_end
\* is new; the run of a merged Datum gets its data_id.
RECURSIVE MergeDataFrom(_, _, _, _, _, _)
MergeDataFrom(data, k, data_dates, lines, runs, rows) ==
    IF k > Len(data) THEN [runs |-> runs, rows |-> rows]
    ELSE LET r        == data[k]
             date_end == lines[runs[r].nmhcline_id].date
         IN  IF r # 0 /\ DatumDateIsNew(date_end, data_dates)
             THEN MergeDataFrom(
                    data, k + 1, Append(data_dates, date_end), lines,
                    [runs EXCEPT ![r].data_id = Len(rows) + 1],
                    MergeRows(rows, <<[revision |-> Datum(r).revision,
                                       qc |-> Datum(r).qc,
                                       notes |-> Datum(r).notes]>>))
             ELSE MergeDataFrom(data, k + 1, data_dates, lines, runs, rows)

\* The date_end of a stored Datum: that of the run that refers to it.
DatumDateEnd(d, runs, lines) ==
    lines[runs[CHOOSE r \in 1..Len(runs) : runs[r].data_id = d].nmhcline_id].date

\* One pass of the loop of integrate_runs.
integrate_runs ==
    /\ pc = "loop"
    /\ Running("integrate_runs")
    /\ LET GcRuns == UnintegratedFrom(dbRuns, 1)
           data_dates == [d \in 1..Len(dbData) |->
                             DatumDateEnd(d, dbRuns, dbLines)]
       IN  \E looped \in {IntegrateLoop(GcRuns, 1, dbRuns, dbLines, <<>>)} :
           IF looped.raised
           THEN \* ZeroDivisionError out of integrate, after the commits
                /\ Raise("integrate_runs", "ZeroDivisionError")
                /\ dbRuns' = looped.runs
                /\ dbLines' = looped.lines
                /\ UNCHANGED dbData
           ELSE \E merged \in {MergeDataFrom(looped.data, 1, data_dates,
                                             looped.lines, looped.runs, dbData)} :
                    /\ dbRuns' = merged.runs
                    /\ dbLines' = looped.lines
                    /\ dbData' = merged.rows
                    /\ UNCHANGED task
    /\ UNCHANGED <<logDir, paFile, start_line, pa_file_size, dbLogs, crfFile,
                   dbCrfs, callVars>>

----------------------------------------------------------------------------
(* One call of match_log_to_pa on lists drawn from small sets              *)

MaxMatchLogs == 2
MaxMatchLines == 3

\* The lists create_gc_runs passes: rows of unique date (the date columns
\* are unique), all of status 'single' (the queries filter on it), in id
\* order, which need not be date order.
MatchLogDates == {Minutes(100), Minutes(105), Minutes(111)}
MatchLineDates ==
    {Minutes(89), Minutes(94), Minutes(100), Minutes(106), Minutes(116),
     Minutes(122)}

DistinctSeqs(S, n) ==
    {s \in SeqUpTo(S, n) : \A i, j \in DOMAIN s : i # j => s[i] # s[j]}

MatchLogLists ==
    {[i \in DOMAIN s |-> [id |-> i, date |-> s[i], status |-> "single",
                          sampletype |-> 5]] :
        s \in DistinctSeqs(MatchLogDates, MaxMatchLogs)}

MatchLineLists ==
    {[i \in DOMAIN s |-> [id |-> i, date |-> s[i], status |-> "single"]] :
        s \in DistinctSeqs(MatchLineDates, MaxMatchLines)}

IdlePipeline ==
    /\ logDir = {}
    /\ paFile = <<>>
    /\ start_line = 0
    /\ pa_file_size = 0
    /\ dbLogs = <<>>
    /\ dbLines = <<>>
    /\ dbRuns = <<>>
    /\ crfFile = MissingFile
    /\ dbCrfs = <<>>
    /\ dbData = <<>>
    /\ task = [t \in Tasks |-> "running"]

NoCall == [fn |-> "none"]

Init ==
    /\ IdlePipeline
    /\ pc = "loop"
    /\ callArgs = NoCall
    /\ callRet = NoCall

Next ==
    \/ DropLogFile
    \/ AppendPaLine
    \/ WriteCrfLine
    \/ check_load_logs
    \/ check_load_pas
    \/ create_gc_runs
    \/ load_crfs
    \/ integrate_runs

Spec == Init /\ [][Next]_vars

\* The pipeline in an environment that writes at most MaxFairInputs inputs.
FairNext ==
    \/ InputsWritten < MaxFairInputs /\ DropLogFile
    \/ InputsWritten < MaxFairInputs /\ AppendPaLine
    \/ InputsWritten < MaxFairInputs /\ WriteCrfLine
    \/ check_load_logs
    \/ check_load_pas
    \/ create_gc_runs
    \/ load_crfs
    \/ integrate_runs

\* Every task that has not failed gets its turn again and again.
FairSpec ==
    /\ Init
    /\ [][FairNext]_vars
    /\ WF_vars(check_load_logs)
    /\ WF_vars(check_load_pas)
    /\ WF_vars(create_gc_runs)
    /\ WF_vars(load_crfs)
    /\ WF_vars(integrate_runs)

InitMatch ==
    /\ IdlePipeline
    /\ pc = "call"
    /\ callArgs \in {[fn |-> "match_log_to_pa", LogFiles |-> l, NmhcLines |-> n] :
                        l \in MatchLogLists, n \in MatchLineLists}
    /\ callRet = NoCall

CallMatchLogToPa ==
    /\ pc = "call"
    /\ callArgs.fn = "match_log_to_pa"
    /\ callRet' = match_log_to_pa(callArgs.LogFiles, callArgs.NmhcLines)
    /\ pc' = "done"
    /\ UNCHANGED <<pipelineVars, callArgs>>

NextMatch == CallMatchLogToPa

SpecMatch == InitMatch /\ [][NextMatch]_vars

----------------------------------------------------------------------------
(* One call of find_crf on lists drawn from small sets                     *)

MaxCrfs == 2

CrfDates ==
    {Datetime(1, 1, 0, 0, 0), Datetime(2, 1, 0, 0, 0), Datetime(3, 1, 0, 0, 0),
     Datetime(4, 1, 0, 0, 0)}

SampleDates == CrfDates \cup {Datetime(2, 15, 12, 0, 0), Datetime(5, 1, 0, 0, 0)}

\* The lists of calibration records the crfs table can hold: date_start and
\* date_end are unique columns; nothing orders the two bounds of a record.
CrfLists ==
    {[i \in DOMAIN s |-> [id |-> i, date_start |-> s[i][1],
                          date_end |-> s[i][2]]] :
        s \in {q \in SeqUpTo(CrfDates \X CrfDates, MaxCrfs) :
                 \A i, j \in DOMAIN q :
                    i # j => q[i][1] # q[j][1] /\ q[i][2] # q[j][2]}}

InitCrf ==
    /\ IdlePipeline
    /\ pc = "call"
    /\ callArgs \in {[fn |-> "find_crf", crfs |-> c, sample_date |-> t] :
                        c \in CrfLists, t \in SampleDates}
    /\ callRet = NoCall

CallFindCrf ==
    /\ pc = "call"
    /\ callArgs.fn = "find_crf"
    /\ callRet' = [crf |-> find_crf(callArgs.crfs, callArgs.sample_date)]
    /\ pc' = "done"
    /\ UNCHANGED <<pipelineVars, callArgs>>

NextCrf == CallFindCrf

SpecCrf == InitCrf /\ [][NextCrf]_vars

----------------------------------------------------------------------------
(* One call of GcRun.integrate on runs drawn from small sets               *)

MaxPeaks == 2

\* Factor tables of a calibration record: a header may name compounds out
\* of compound_list, a factor may be 0.
CompoundTables ==
    {"ethane" :> 2,
     "ethane" :> 2 @@ "propane" :> 3 @@ "methane" :> 1,
     "ethane" :> 0 @@ "propane" :> 3}

IntegratePeaks ==
    {Peak("ethane", 1000, 250), Peak("propane", 900, 300), Peak("-", 7, 535),
     Peak("methane", 50, 100), Peak("benzene", 60, 900)}

SampleTypeCodes == {0, 1, 2, 3, 4, 5}

\* GcRun(log, line) as integrate reads it: type is set in __init__ from the
\* log's sampletype; sampletime and sampleflow1 are the log's.
IntegrateRuns ==
    {[crfs |-> c, sampletype |-> code, type |-> sample_types(code),
      sampletime |-> st, sampleflow1 |-> 20, peaks |-> ps] :
        c \in {None} \cup {<<[compounds |-> t]>> : t \in CompoundTables},
        code \in SampleTypeCodes, st \in {0, 10},
        ps \in SeqUpTo(IntegratePeaks, MaxPeaks)}

InitIntegrate ==
    /\ IdlePipeline
    /\ pc = "call"
    /\ callArgs \in {[fn |-> "integrate", run |-> r] : r \in IntegrateRuns}
    /\ callRet = NoCall

CallIntegrate ==
    /\ pc = "call"
    /\ callArgs.fn = "integrate"
    /\ callRet' = integrate(callArgs.run)
    /\ pc' = "done"
    /\ UNCHANGED <<pipelineVars, callArgs>>

NextIntegrate == CallIntegrate

SpecIntegrate == InitIntegrate /\ [][NextIntegrate]_vars

----------------------------------------------------------------------------
(* One call of check_c4_rts on peak lists drawn from a small set           *)

MaxC4Peaks == 3

\* The retention time of the reference peak in the lists below.
IbutRt == 500

\* Peaks as read_pa_line builds them: labeled or unlabeled ('-'), at
\* offsets from the reference on, inside and outside the two windows.
C4Peaks ==
    {Peak("i-butane", 10, IbutRt),
     Peak("acetylene", 5, IbutRt + AcetLo),
     Peak("acetylene", 5, IbutRt + 35),
     Peak("acetylene", 6, IbutRt + AcetHi),
     Peak("acetylene", 5, IbutRt + 50),
     Peak("-", 9, IbutRt + AcetLo),
     Peak("-", 7, IbutRt + 35),
     Peak("-", 8, IbutRt + 36),
     Peak("n-butane", 5, IbutRt + NbutLo),
     Peak("n-butane", 6, IbutRt + 44),
     Peak("n-butane", 5, IbutRt + NbutHi),
     Peak("n-butane", 4, IbutRt + 35),
     Peak("-", 8, IbutRt + 44),
     Peak("-", 9, IbutRt + NbutLo),
     Peak("i-butane", 9, IbutRt + 35)}

InitC4 ==
    /\ IdlePipeline
    /\ pc = "call"
    /\ callArgs \in {[fn |-> "check_c4_rts", peaks |-> ps] :
                        ps \in SeqUpTo(C4Peaks, MaxC4Peaks)}
    /\ callRet = NoCall

CallCheckC4Rts ==
    /\ pc = "call"
    /\ callArgs.fn = "check_c4_rts"
    /\ callRet' = [peaks |-> check_c4_rts(callArgs.peaks)]
    /\ pc' = "done"
    /\ UNCHANGED <<pipelineVars, callArgs>>

NextC4 == CallCheckC4Rts

SpecC4 == InitC4 /\ [][NextC4]_vars

----------------------------------------------------------------------------
(* One call of fix_off_dates on records drawn from small sets              *)

MaxFixLogs == 2
MaxFixLines == 1

\* Timestamps on, just inside and outside the bounds of the two windows,
\* and the two of the specification's example.
FixDates ==
    {Datetime(3, 12, 2, 0, 0), Datetime(3, 12, 2, 0, 1),
     Datetime(3, 15, 8, 0, 0),
     Datetime(4, 11, 12, 59, 59), Datetime(4, 11, 13, 0, 0),
     Datetime(4, 27, 15, 4, 59), Datetime(4, 27, 15, 5, 0),
     Datetime(5, 1, 8, 0, 0), Datetime(3, 12, 1, 30, 0)}

FixLogLists ==
    {[i \in DOMAIN s |-> [date |-> s[i], status |-> "single"]] :
        s \in SeqUpTo(FixDates, MaxFixLogs)}

FixLineLists ==
    {[i \in DOMAIN s |-> [date |-> s[i], status |-> "single"]] :
        s \in SeqUpTo(FixDates, MaxFixLines)}

InitFix ==
    /\ IdlePipeline
    /\ pc = "call"
    /\ callArgs \in {[fn |-> "fix_off_dates", LogFiles |-> l, NmhcLines |-> n] :
                        l \in FixLogLists, n \in FixLineLists}
    /\ callRet = NoCall

\* fix_off_dates changes the records in place: callRet is the two lists
\* as they are after the call.
CallFixOffDates ==
    /\ pc = "call"
    /\ callArgs.fn = "fix_off_dates"
    /\ callRet' = [LogFiles  |-> fix_off_dates_logs(callArgs.LogFiles),
                   NmhcLines |-> fix_off_dates_lines(callArgs.NmhcLines)]
    /\ pc' = "done"
    /\ UNCHANGED <<pipelineVars, callArgs>>

NextFix == CallFixOffDates

SpecFix == InitFix /\ [][NextFix]_vars

----------------------------------------------------------------------------
(* One call of read_crf_data on a file drawn from a small set, and one     *)
(* call of find_crf on the list it returns                                 *)

MaxReadLines == 2

\* reservoir_CRFs.txt: missing, or with up to MaxReadLines data lines.
CrfFiles ==
    {MissingFile} \cup
    {[exists |-> TRUE, lines |-> l] : l \in SeqUpTo(CrfLineNames, MaxReadLines)}

ReadSampleDates ==
    {Datetime(3, 5, 0, 0, 0), Datetime(3, 12, 0, 30, 0),
     Datetime(3, 20, 0, 0, 0), Datetime(4, 15, 0, 0, 0)}

InitRead ==
    /\ IdlePipeline
    /\ pc = "call"
    /\ callArgs \in {[fn |-> "read_crf_data", file |-> f, sample_date |-> t] :
                        f \in CrfFiles, t \in ReadSampleDates}
    /\ callRet = NoCall

\* Crfs = read_crf_data(filename).  Neither it nor Crf.__init__ raises on
\* the lines of CrfLineContents.
CallReadCrfData ==
    /\ pc = "call"
    /\ callArgs.fn = "read_crf_data"
    /\ callRet' = [raised |-> FALSE, Crfs |-> read_crf_data(callArgs.file)]
    /\ pc' = "read"
    /\ UNCHANGED <<pipelineVars, callArgs>>

\* find_crf(Crfs, sample_date) on the list read.
CallFindCrfOfRead ==
    /\ pc = "read"
    /\ callRet.Crfs # None
    /\ callRet' = [raised |-> FALSE, Crfs |-> callRet.Crfs,
                   crf |-> find_crf(callRet.Crfs[1], callArgs.sample_date)]
    /\ pc' = "done"
    /\ UNCHANGED <<pipelineVars, callArgs>>

NextRead == CallReadCrfData \/ CallFindCrfOfRead

SpecRead == InitRead /\ [][NextRead]_vars

----------------------------------------------------------------------------
(* Properties of the pipeline (Spec, FairSpec)                             *)

RunDateEnd(r) == dbLines[dbRuns[r].nmhcline_id].date

LogHasRun(i) == \E r \in 1..Len(dbRuns) : dbRuns[r].logfile_id = i

LineHasRun(j) == \E r \in 1..Len(dbRuns) : dbRuns[r].nmhcline_id = j

Near(log, line) == Abs(line.date - log.date) < Minutes(ToleranceMinutes)

\* C2: the store never holds two Runs with the same signal-record timestamp
\* (date_end), whatever cycles of create_gc_runs ran over the growing tables.
C2_OneRunPerDateEnd ==
    \A r1, r2 \in 1..Len(dbRuns) : r1 # r2 => RunDateEnd(r1) # RunDateEnd(r2)

\* C2 witness: the matcher paired two logs with one line in one cycle and
\* the store holds the one Run of that line; or two cycles stored two Runs.
C2_Witness ==
    /\ Len(dbRuns) >= 1
    /\ \E i, k \in 1..Len(dbLogs) :
          i # k /\ dbLogs[i].status = "married" /\ dbLogs[k].status = "married"
    /\ \E j \in 1..Len(dbLines) :
          dbLines[j].status = "married" /\ LineHasRun(j)

\* C3: a metadata record or a signal record is married if and only if a
\* stored Run references it.
C3_MarriedIffRun ==
    /\ \A i \in 1..Len(dbLogs) : dbLogs[i].status = "married" <=> LogHasRun(i)
    /\ \A j \in 1..Len(dbLines) : dbLines[j].status = "married" <=> LineHasRun(j)

\* C5: a cycle of create_gc_runs that meets unmatched metadata records and
\* an empty signal-record pool raises nothing, stores no Run, leaves the
\* metadata records unmatched, and the task keeps running.
C5_EmptyPoolKeepsRunning ==
    [][(/\ Running("create_gc_runs")
        /\ SingleRows(dbLogs) # <<>>
        /\ SingleRows(dbLines) = <<>>)
       => (/\ Running("create_gc_runs")'
           /\ dbRuns' = dbRuns
           /\ \A i \in 1..Len(dbLogs) : dbLogs'[i].status = dbLogs[i].status)]_vars

\* An unmatched metadata record with an unmatched signal record within
\* tolerance of it in the store.
Awaits(f) ==
    \E i \in 1..Len(dbLogs) :
       /\ dbLogs[i].filename = f
       /\ dbLogs[i].status = "single"
       /\ \E j \in 1..Len(dbLines) :
             dbLines[j].status = "single" /\ Near(dbLogs[i], dbLines[j])

HasRun(f) ==
    \E i \in 1..Len(dbLogs) : dbLogs[i].filename = f /\ LogHasRun(i)

\* C6: an unmatched metadata record is retried: once an unmatched signal
\* record within 11 minutes of it is in the store, a later cycle of
\* create_gc_runs creates its Run (unless the signal record went to another
\* metadata record meanwhile).
C6_EventuallyMatched ==
    \A f \in LogFileNames : Awaits(f) ~> (HasRun(f) \/ ~Awaits(f))

----------------------------------------------------------------------------
(* Properties of one call of match_log_to_pa (SpecMatch)                   *)

MatchDone == pc = "done" /\ callArgs.fn = "match_log_to_pa"

\* The least absolute difference between a date and the dates of the lines.
MinAbsDiff(date, lines) ==
    LET diffs == {Abs(lines[j].date - date) : j \in 1..Len(lines)}
    IN  CHOOSE m \in diffs : \A d \in diffs : m <= d

\* The runs of the result built for the log at position i.
RunsOfLog(i) == {k \in 1..Len(callRet.runs) : callRet.runs[k].log = i}

\* C1: against a non-empty signal-record list, a Run is created for a
\* metadata record if and only if the least absolute timestamp difference
\* to the signal records is strictly less than 11 minutes; at 11 minutes or
\* more there is no Run and the record keeps the status 'single'.
C1_RunIffWithinTolerance ==
    (MatchDone /\ Len(callArgs.NmhcLines) > 0) =>
        /\ ~callRet.raised
        /\ \A i \in 1..Len(callArgs.LogFiles) :
              LET d == MinAbsDiff(callArgs.LogFiles[i].date, callArgs.NmhcLines)
              IN  /\ (d < Minutes(ToleranceMinutes)) <=> (RunsOfLog(i) # {})
                  /\ Cardinality(RunsOfLog(i)) <= 1
                  /\ d < Minutes(ToleranceMinutes) =>
                        callRet.LogFiles[i].status = "married"
                  /\ d >= Minutes(ToleranceMinutes) =>
                        callRet.LogFiles[i].status = "single"

\* C1 witness: a call after which one unmatched record, exactly 11 minutes
\* from its nearest signal record, has no Run and is still single, and
\* another record has its Run.
C1_Witness ==
    /\ MatchDone
    /\ Len(callArgs.NmhcLines) > 0
    /\ \E i, k \in 1..Len(callArgs.LogFiles) :
          /\ MinAbsDiff(callArgs.LogFiles[i].date, callArgs.NmhcLines)
                = Minutes(ToleranceMinutes)
          /\ RunsOfLog(i) = {}
          /\ callRet.LogFiles[i].status = "single"
          /\ RunsOfLog(k) # {}

\* C4: match_log_to_pa pairs no signal record that came in married and none
\* that it married earlier in the call: the Runs of one call reference
\* pairwise distinct signal records.
C4_NoRecordPairedTwice ==
    MatchDone =>
        /\ \A k \in 1..Len(callRet.runs) :
              callArgs.NmhcLines[callRet.runs[k].line].status = "single"
        /\ \A k1, k2 \in 1..Len(callRet.runs) :
              k1 # k2 => callRet.runs[k1].line # callRet.runs[k2].line

\* The signal records still unmatched when the k-th Run of the call was
\* built: those that came in single and that no earlier Run took.
UnmatchedAt(k) ==
    {j \in 1..Len(callArgs.NmhcLines) :
        /\ callArgs.NmhcLines[j].status = "single"
        /\ \A k0 \in 1..(k - 1) : callRet.runs[k0].line # j}

\* C7: the signal record of a Run is the one of least absolute timestamp
\* difference among the unmatched candidates, the first in list order among
\* equally near ones.
C7_NearestUnmatchedFirst ==
    MatchDone =>
        \A k \in 1..Len(callRet.runs) :
            LET run  == callRet.runs[k]
                diff(j) == Abs(callArgs.NmhcLines[j].date - run.date_start)
            IN  /\ run.line \in UnmatchedAt(k)
                /\ \A j \in UnmatchedAt(k) :
                      /\ diff(run.line) <= diff(j)
                      /\ diff(run.line) = diff(j) => run.line <= j

----------------------------------------------------------------------------
(* Properties of one call of find_crf (SpecCrf)                            *)

CrfDone == pc = "done" /\ callArgs.fn = "find_crf"

\* The positions of the records whose interval holds the sample date, the
\* start included and the end excluded.
Covering ==
    {i \in 1..Len(callArgs.crfs) :
        /\ callArgs.crfs[i].date_start <= callArgs.sample_date
        /\ callArgs.sample_date < callArgs.crfs[i].date_end}

\* C8: find_crf returns the first record in list order with
\* date_start <= t < date_end, and None when no record holds t.
C8_FirstCoveringRecord ==
    CrfDone =>
        IF Covering = {} THEN callRet.crf = None
        ELSE callRet.crf =
                <<callArgs.crfs[CHOOSE i \in Covering : \A j \in Covering : i <= j]>>

\* C8 witness: t is the date_start of the record returned, and an earlier
\* record of the list ends exactly at t and is passed over.
C8_Witness ==
    /\ CrfDone
    /\ callRet.crf # None
    /\ callRet.crf[1].date_start = callArgs.sample_date
    /\ \E i \in 1..Len(callArgs.crfs) :
          /\ i < callRet.crf[1].id
          /\ callArgs.crfs[i].date_start < callArgs.sample_date
          /\ callArgs.crfs[i].date_end = callArgs.sample_date

----------------------------------------------------------------------------
(* Properties of one call of GcRun.integrate (SpecIntegrate)               *)

IntegrateDone == pc = "done" /\ callArgs.fn = "integrate"

\* C9: integrate returns a Datum if and only if the run has a calibration
\* record and its sample-type code is 5 (ambient) or 0 (zero); it returns
\* None otherwise, and never raises.
C9_DatumIffCalibratedAndIntegrable ==
    IntegrateDone =>
        /\ ~callRet.raised
        /\ (callRet.datum # None) <=>
              (callArgs.run.crfs # None /\ callArgs.run.sampletype \in {0, 5})

\* The mixing ratio mr is pa / (crf * ecn * sampletime * sampleflow1) * 600,
\* with ecn in tenths.
IsMixingRatioOf(mr, peak, run) ==
    LET crf == run.crfs[1].compounds[peak.name]
        ecn == compound_ecns[peak.name]
    IN  /\ mr # None
        /\ mr[1] * (crf * ecn * run.sampletime * run.sampleflow1)
              = mr[2] * (peak.pa * 600 * 10)

\* The peaks of the spec's example: area 1000, factor 2, carbon number 2
\* (ethane), sample time 10, sample flow 20.
IsExample(peak, run) ==
    /\ peak.name = "ethane" /\ peak.pa = 1000
    /\ run.crfs[1].compounds["ethane"] = 2
    /\ run.sampletime = 10 /\ run.sampleflow1 = 20

\* What C10 says of the peaks of a Datum, with the value the example gives.
MixingRatiosAsStated(example) ==
    (IntegrateDone /\ callRet.datum # None) =>
        \A i \in 1..Len(callArgs.run.peaks) :
            LET peak == callArgs.run.peaks[i]
                mr   == callRet.datum[1].run.peaks[i].mr
            IN  IF /\ peak.name \in compound_list
                   /\ peak.name \in DOMAIN callArgs.run.crfs[1].compounds
                THEN /\ IsMixingRatioOf(mr, peak, callArgs.run)
                     /\ IsExample(peak, callArgs.run) => mr = <<example, 1>>
                ELSE mr = peak.mr

\* C10 as stated: when integrate produces a Datum, a peak gets mixing_ratio
\* = peak_area / (response_factor * expected_carbon_number * sample_time *
\* sample_flow) * 600 exactly when its name is a tracked compound in the
\* calibration's factor table, the example (1000, 2, 2, 10, 20) giving 75,
\* and every other peak's mixing ratio is left as it was.
C10_MixingRatioExample75 == MixingRatiosAsStated(75)

\* C10 amended: the same, the example giving 750.
C10_MixingRatioExample750 == MixingRatiosAsStated(750)

\* C10 witness: a Datum whose example peak has mixing ratio 750 and which
\* has a peak left without a mixing ratio.
C10_Witness ==
    /\ IntegrateDone
    /\ callRet.datum # None
    /\ \E i, k \in 1..Len(callArgs.run.peaks) :
          /\ IsExample(callArgs.run.peaks[i], callArgs.run)
          /\ callRet.datum[1].run.peaks[i].mr = <<750, 1>>
          /\ callRet.datum[1].run.peaks[k].mr = None

----------------------------------------------------------------------------
(* Properties of one call of check_c4_rts (SpecC4)                         *)

C4Done == pc = "done" /\ callArgs.fn = "check_c4_rts"

\* The position of the reference peak, the first peak named i-butane (0
\* when the list has none), and a peak's offset from it.
RefIndex(peaks) == search_for_name(peaks, "i-butane")

HasReference(peaks) == RefIndex(peaks) # 0

Offset(peaks, i) == peaks[i].rt - peaks[RefIndex(peaks)].rt

\* The window of a target compound as the specification states it: [lo, hi).
WindowLo(name) == IF name = "acetylene" THEN AcetLo ELSE NbutLo

WindowHi(name) == IF name = "acetylene" THEN AcetHi ELSE NbutHi

InStatedWindow(name, diff) == WindowLo(name) <= diff /\ diff < WindowHi(name)

TargetCompounds == {"acetylene", "n-butane"}

Named(peaks, name) == {i \in 1..Len(peaks) : peaks[i].name = name}

\* The peaks whose offset lies in the stated window of the compound.
StatedPool(peaks, name) ==
    {i \in 1..Len(peaks) : InStatedWindow(name, Offset(peaks, i))}

LargestOf(peaks, S) == {i \in S : \A k \in S : peaks[i].pa >= peaks[k].pa}

\* C11: the windows are half-open [lo, hi).  With a reference peak, the
\* first peak labeled with a target compound keeps its label at an offset of
\* exactly lo and loses it at exactly hi; and when no peak is labeled with
\* the compound, the search takes its candidates from [lo, hi), so that a
\* largest peak of that window (one at exactly lo included) gets the name.
C11_HalfOpenWindows ==
    (C4Done /\ HasReference(callArgs.peaks)) =>
        \A name \in TargetCompounds :
            LET peaks == callArgs.peaks
                first == search_for_name(peaks, name)
            IN  /\ (first # 0 /\ Offset(peaks, first) = WindowLo(name))
                      => callRet.peaks[first].name = name
                /\ (first # 0 /\ Offset(peaks, first) = WindowHi(name))
                      => callRet.peaks[first].name # name
                /\ (first = 0 /\ StatedPool(peaks, name) # {})
                      => \E i \in LargestOf(peaks, StatedPool(peaks, name)) :
                            callRet.peaks[i].name = name

\* C12: after check_c4_rts on a peak list with a reference peak, at most one
\* peak is named acetylene and at most one is named n-butane.
C12_AtMostOnePerCompound ==
    (C4Done /\ HasReference(callArgs.peaks)) =>
        \A name \in TargetCompounds :
            Cardinality(Named(callRet.peaks, name)) <= 1

\* The peaks labeled with the compound whose offset is outside its window.
Mislabeled(peaks, name) ==
    {i \in Named(peaks, name) : ~InStatedWindow(name, Offset(peaks, i))}

\* C13: with a reference peak, a peak labeled with a target compound at an
\* offset outside the compound's window [lo, hi) loses the label (it is '-'
\* afterwards, unless the search for the other compound took it); then, if
\* peaks lie inside the window, exactly one of largest area among them has
\* the compound's name, and if none lies inside, no peak has it.
C13_RelabelOutsideAndLargestInside ==
    (C4Done /\ HasReference(callArgs.peaks)) =>
        \A name \in TargetCompounds :
            LET peaks == callArgs.peaks
                pool  == StatedPool(peaks, name)
            IN  Mislabeled(peaks, name) # {} =>
                   /\ \A i \in Mislabeled(peaks, name) :
                         callRet.peaks[i].name \in {"-"} \cup (TargetCompounds \ {name})
                   /\ pool # {} =>
                         \E i \in LargestOf(peaks, pool) :
                            Named(callRet.peaks, name) = {i}
                   /\ pool = {} => Named(callRet.peaks, name) = {}

\* C14: check_c4_rts on a peak list with no peak named i-butane returns the
\* list as it is: every name, area and retention time unchanged.
C14_NoReferenceNoCorrection ==
    (C4Done /\ ~HasReference(callArgs.peaks)) => callRet.peaks = callArgs.peaks

\* C14 witness: a list without reference peak that holds an acetylene peak
\* and an n-butane peak outside their windows comes back unchanged.
C14_Witness ==
    /\ C4Done
    /\ ~HasReference(callArgs.peaks)
    /\ \E i, k \in 1..Len(callArgs.peaks) :
          /\ callArgs.peaks[i] = Peak("acetylene", 5, IbutRt + 50)
          /\ callArgs.peaks[k] = Peak("n-butane", 4, IbutRt + 35)
    /\ callRet.peaks = callArgs.peaks

----------------------------------------------------------------------------
(* Properties of one call of fix_off_dates (SpecFix)                       *)

FixDone == pc = "done" /\ callArgs.fn = "fix_off_dates"

\* The correction windows: both open, from 2017-03-12 02:00:00 to the end
\* bound of the stream.
WindowStart == Datetime(3, 12, 2, 0, 0)

LogWindowEnd == Datetime(4, 11, 13, 0, 0)

LineWindowEnd == Datetime(4, 27, 15, 5, 0)

Shifted(before, after, end) ==
    IF WindowStart < before /\ before < end
    THEN after = before - 3600
    ELSE after = before

----------------------------------------------------------------------------
(* Properties of the two ingestion tasks (Spec)                            *)

LoadedNames == {dbLogs[i].filename : i \in 1..Len(dbLogs)}

\* The log files check_load_logs would read in its next cycle.
LogBatch == logDir \ LoadedNames

\* The raw lines check_load_pas would read in its next cycle.
PaBatch ==
    IF Len(paFile) > pa_file_size
    THEN {paFile[k] : k \in (start_line + 1)..Len(paFile)}
    ELSE {}

\* A step that is a cycle of check_load_logs over a batch: rows are added
\* to logfiles or the task ends.
LogCycle ==
    \/ Len(dbLogs') # Len(dbLogs)
    \/ task'["check_load_logs"] # task["check_load_logs"]

\* A step that is a cycle of check_load_pas over a batch with a record.
PaCycle ==
    \/ start_line' # start_line
    \/ task'["check_load_pas"] # task["check_load_pas"]

\* C19: a raw record for which the parser yields no record is dropped and
\* never reaches fix_off_dates or the merge: a cycle of an ingestion task
\* over a batch that holds such a record leaves the task running and stores
\* the well-formed records of the batch (a signal record unless its
\* timestamp is already stored).
C19_UnparsedRecordsDropped ==
    [][/\ (/\ \E f \in LogBatch : read_log_file(f) = None
           /\ Running("check_load_logs")
           /\ LogCycle)
          => /\ Running("check_load_logs")'
             /\ \A f \in LogBatch :
                   read_log_file(f) # None
                      => \E i \in 1..Len(dbLogs') : dbLogs'[i].filename = f
       /\ (/\ \E l \in PaBatch : PaLineContents[l].kind # "ok"
           /\ Running("check_load_pas")
           /\ PaCycle)
          => /\ Running("check_load_pas")'
             /\ \A l \in PaBatch :
                   PaLineContents[l].kind = "ok"
                      => \E j \in 1..Len(dbLines') :
                            dbLines'[j].date
                               = fix_off_dates_lines(<<read_pa_line(l)[1]>>)[1].date
      ]_vars

\* C20: in every state of the store no two metadata records share a
\* timestamp and no two signal records share a timestamp.
C20_UniqueTimestamps == UniqueDates(dbLogs) /\ UniqueDates(dbLines)

\* C20 witness: the log directory holds two files that have the same
\* timestamp after the correction, one of them stored; and NMHC_PA.LOG,
\* read to its end, holds two different raw lines that have the same
\* timestamp after the correction, stored once.
C20_Witness ==
    /\ \E f, g \in logDir :
          /\ f # g
          /\ f \in LoadedNames
          /\ read_log_file(g) # None
          /\ fix_off_dates_logs(<<read_log_file(g)[1]>>)[1].date
                \in {dbLogs[i].date : i \in 1..Len(dbLogs)}
          /\ g \notin LoadedNames
          /\ ~Running("check_load_logs")
    /\ start_line = Len(paFile)
    /\ \E k1, k2 \in 1..Len(paFile) :
          /\ paFile[k1] # paFile[k2]
          /\ PaLineContents[paFile[k1]].kind = "ok"
          /\ PaLineContents[paFile[k2]].kind = "ok"
          /\ fix_off_dates_lines(<<read_pa_line(paFile[k1])[1]>>)[1].date
                = fix_off_dates_lines(<<read_pa_line(paFile[k2])[1]>>)[1].date
    /\ Len(dbLines) = 1


\* The timestamp (date_end) of every stored Datum, in id order.
DataDates == [d \in 1..Len(dbData) |-> DatumDateEnd(d, dbRuns, dbLines)]

\* C16: after any cycles of load_crfs and integrate_runs the store holds at
\* most one Datum per run timestamp and at most one Crf per start date, and
\* load_crfs never ended on a start date that is stored already (a record
\* whose start date exists, in the store or earlier in the same load, is
\* skipped without an error).
C16_OneDatumPerDateOneCrfPerStart ==
    /\ \A d1, d2 \in 1..Len(dbData) : d1 # d2 => DataDates[d1] # DataDates[d2]
    /\ UniqueCrfStarts(dbCrfs)
    /\ task["load_crfs"] # "IntegrityError date_start"

\* C16 witness: reservoir_CRFs.txt holds two lines of the same start date,
\* the store holds one Crf, load_crfs is still running, and a Datum is
\* stored.
C16_Witness ==
    /\ Len(crfFile.lines) = 2
    /\ CrfLineContents[crfFile.lines[1]].date_start
          = CrfLineContents[crfFile.lines[2]].date_start
    /\ crfFile.lines[1] # crfFile.lines[2]
    /\ Len(dbCrfs) = 1
    /\ Running("load_crfs")
    /\ Len(dbData) >= 1


\* The store: the five tables.
Store == <<dbLogs, dbLines, dbRuns, dbCrfs, dbData>>

\* Every log file that parses has its (corrected) timestamp in logfiles.
RawLogsStored ==
    \A f \in logDir :
        read_log_file(f) # None
            => fix_off_dates_logs(<<read_log_file(f)[1]>>)[1].date
                  \in {dbLogs[i].date : i \in 1..Len(dbLogs)}

\* Every line of NMHC_PA.LOG that parses has its (corrected) timestamp in
\* nmhclines.
RawLinesStored ==
    \A k \in 1..Len(paFile) :
        PaLineContents[paFile[k]].kind = "ok"
            => fix_off_dates_lines(<<read_pa_line(paFile[k])[1]>>)[1].date
                  \in {dbLines[i].date : i \in 1..Len(dbLines)}

\* Every data line of reservoir_CRFs.txt has its start date in crfs.
RawCrfsStored ==
    \A k \in 1..Len(crfFile.lines) :
        CrfLineContents[crfFile.lines[k]].date_start
            \in {dbCrfs[i].date_start : i \in 1..Len(dbCrfs)}

\* No single log is within the tolerance of a single line.
PairsMatched ==
    \A i \in 1..Len(dbLogs), j \in 1..Len(dbLines) :
        IsSingle(dbLogs[i]) /\ IsSingle(dbLines[j])
            => ~WithinTolerance(dbLines[j].date - dbLogs[i].date)

\* Every run without a Datum refers to the Crf find_crf gives for it and is
\* one integrate builds no Datum from.
RunsIntegrated ==
    \A r \in 1..Len(dbRuns) :
        dbRuns[r].data_id = 0
            => /\ IntegrateStep(dbRuns[r], dbLogs, dbLines).crf_id = dbRuns[r].crf_id
               /\ IntegrateStep(dbRuns[r], dbLogs, dbLines).done.datum = None

\* Every task has processed the raw inputs as they are.
Processed ==
    /\ RawLogsStored
    /\ RawLinesStored
    /\ RawCrfsStored
    /\ PairsMatched
    /\ RunsIntegrated

\* C17: once every task has processed the raw inputs, any further cycle of
\* any of the five tasks leaves the store unchanged: the same records and
\* statuses, Runs, Crfs, Datums, peak names and mixing ratios.
C17_RepeatedIngestionIdempotent ==
    [][Processed => Store' = Store]_vars

\* C17 witness: every task has processed the raw inputs and is still
\* running, the store holds a Datum, and a line of NMHC_PA.LOG whose
\* timestamp is stored is still to be read.
C17_Witness ==
    /\ Processed
    /\ \A t \in Tasks : Running(t)
    /\ Len(dbData) >= 1
    /\ \E j \in 1..Len(dbLines) :
          \E p \in 1..Len(dbLines[j].peaklist) :
              dbLines[j].peaklist[p].mr # None
    /\ start_line < Len(paFile)


\* The run of row r is of a type integrate builds a Datum for.
Integrable(r) == dbRuns[r].type = "ambient" \/ dbRuns[r].type = "zero"

\* A stored Crf covers the timestamp (date_end) of the run of row r.
Covered(r) == find_crf(dbCrfs, dbLines[dbRuns[r].nmhcline_id].date) # None

\* Row r of gcruns is an ambient or zero run that a stored Crf covers.
CoveredRun(r) == Len(dbRuns) >= r /\ Integrable(r) /\ Covered(r)

\* Row r of gcruns has its Datum.
IntegratedRun(r) == Len(dbRuns) >= r /\ dbRuns[r].data_id # 0

\* C18: an ambient or zero run whose timestamp no stored calibration record
\* covers has no Datum and stays un-integrated; once a stored calibration
\* record covers its timestamp, a later cycle of integrate_runs integrates
\* it (it gets its Datum), under fair scheduling of the tasks.
C18_UncoveredRunIntegratedLater ==
    /\ [](\A r \in 1..Len(dbRuns) :
             Integrable(r) /\ ~Covered(r) => dbRuns[r].data_id = 0)
    /\ \A r \in 1..MaxPaLines :
          CoveredRun(r) ~> IntegratedRun(r)


\* C21: integrate on a run that has zero peaks raises, and returns no Datum
\* for it.
C21_ZeroPeaksHardFailure ==
    (pc = "done" /\ callArgs.fn = "integrate" /\ Len(callArgs.run.peaks) = 0)
        => callRet.raised /\ callRet.datum = None


----------------------------------------------------------------------------
(* Properties of read_crf_data and of find_crf on what it returns          *)
(* (SpecRead)                                                              *)

ReadDone == pc = "done" /\ callArgs.fn = "read_crf_data"

\* date_end earlier than date_start
Inverted(crf) == crf.date_end < crf.date_start

\* The records of the list find_crf looks at: all of them when it returns
\* None, else the ones up to the record it returns.
Consulted ==
    {i \in 1..Len(callRet.Crfs[1]) :
        \/ callRet.crf = None
        \/ \A j \in 1..(i - 1) :
              ~CrfCovers(callRet.Crfs[1][j], callArgs.sample_date)}

\* C22: a calibration record whose date_end is earlier than its date_start
\* causes a hard failure when it is loaded or when find_crf consults it;
\* it is not passed over as a record that holds no timestamp.
C22_InvertedBoundsHardFailure ==
    (ReadDone /\ \E i \in Consulted : Inverted(callRet.Crfs[1][i]))
        => callRet.raised


ReadReturned ==
    /\ pc \in {"read", "done"}
    /\ callArgs.fn = "read_crf_data"
    /\ callRet.Crfs # None

\* The factors a data line gives: its fields under the header's keys.
OwnFactors(l) ==
    LET fields == CrfLineContents[l].fields
    IN  [key \in {CrfHeader[i] : i \in 1..Len(fields)} |->
            fields[CHOOSE i \in 1..Len(fields) : CrfHeader[i] = key]]

\* C28: every record read_crf_data builds carries the response factors of
\* its own line: two records built from lines of different factors hold
\* different factor tables, and the record of a line holds what it would
\* hold had the file ended with that line.
C28_OwnFactorsPerLine ==
    ReadReturned =>
        LET lines == callArgs.file.lines
            Crfs  == callRet.Crfs[1]
        IN  /\ \A i \in 1..Len(lines) : Crfs[i].compounds = OwnFactors(lines[i])
            /\ \A i, j \in 1..Len(lines) :
                  OwnFactors(lines[i]) # OwnFactors(lines[j])
                      => Crfs[i].compounds # Crfs[j].compounds
            /\ \A i \in 1..Len(lines) :
                  Crfs[i].compounds =
                     read_crf_data([exists |-> TRUE,
                                    lines |-> SubSeq(lines, 1, i)])[1][i].compounds


----------------------------------------------------------------------------
(* Properties of the order of the stages in the pipeline (Spec)            *)

Names(peaks) == [p \in DOMAIN peaks |-> peaks[p].name]

Areas(peaks) == [p \in DOMAIN peaks |-> <<peaks[p].pa, peaks[p].rt>>]

\* Row j of nmhclines is raw line l of NMHC_PA.LOG after the time
\* correction, with the peak names check_c4_rts gives if the line is in a
\* Run and the raw peak names if it is not.
StoredFrom(j, l) ==
    /\ PaLineContents[l].kind = "ok"
    /\ Shifted(PaLineContents[l].date, dbLines[j].date, LineWindowEnd)
    /\ Areas(dbLines[j].peaklist) = Areas(PaLineContents[l].peaks)
    /\ Names(dbLines[j].peaklist) =
          IF LineHasRun(j) THEN Names(check_c4_rts(PaLineContents[l].peaks))
          ELSE Names(PaLineContents[l].peaks)

\* C23: under every interleaving of the tasks the stages come in the order
\* time correction, matching, peak correction, integration: every stored
\* record (all the matcher can see) has its time-corrected timestamp, the
\* line of every stored Run has the peak names check_c4_rts gives and no
\* other line has changed names, and only peaks of stored Runs have a
\* mixing ratio and only Runs have a Datum.
C23_StagesInOrder ==
    /\ \A i \in 1..Len(dbLogs) :
          Shifted(LogFileContents[dbLogs[i].filename].date, dbLogs[i].date,
                  LogWindowEnd)
    /\ \A j \in 1..Len(dbLines) : \E k \in 1..Len(paFile) : StoredFrom(j, paFile[k])
    /\ \A j \in 1..Len(dbLines) :
          (\E p \in 1..Len(dbLines[j].peaklist) : dbLines[j].peaklist[p].mr # None)
              => LineHasRun(j)
    /\ \A d \in 1..Len(dbData) : \E r \in 1..Len(dbRuns) : dbRuns[r].data_id = d

\* C23 witness: a stored Run has its Datum; its line was stored an hour
\* earlier than written, check_c4_rts renamed a peak of it, and a peak of
\* it has a mixing ratio.
C23_Witness ==
    \E r \in 1..Len(dbRuns) :
        LET j == dbRuns[r].nmhcline_id
        IN  /\ dbRuns[r].data_id # 0
            /\ \E k \in 1..Len(paFile) :
                  /\ StoredFrom(j, paFile[k])
                  /\ PaLineContents[paFile[k]].date # dbLines[j].date
                  /\ Names(PaLineContents[paFile[k]].peaks) # Names(dbLines[j].peaklist)
            /\ \E p \in 1..Len(dbLines[j].peaklist) : dbLines[j].peaklist[p].mr # None


----------------------------------------------------------------------------
(* Properties of the interleaving of the tasks (Spec)                      *)

\* A step keeps what the store holds: no row goes, a status only goes from
\* single to married, a run's crf and Datum and a peak's mixing ratio are
\* only set, never reset, and peaks keep their areas and retention times.
NoLostUpdate ==
    /\ Len(dbLogs') >= Len(dbLogs) /\ Len(dbLines') >= Len(dbLines)
    /\ Len(dbRuns') >= Len(dbRuns) /\ Len(dbCrfs') >= Len(dbCrfs)
    /\ Len(dbData') >= Len(dbData)
    /\ \A i \in 1..Len(dbLogs) :
          /\ [dbLogs'[i] EXCEPT !.status = "married"]
                = [dbLogs[i] EXCEPT !.status = "married"]
          /\ dbLogs[i].status = "married" => dbLogs'[i].status = "married"
    /\ \A j \in 1..Len(dbLines) :
          /\ dbLines'[j].date = dbLines[j].date
          /\ dbLines[j].status = "married" => dbLines'[j].status = "married"
          /\ Areas(dbLines'[j].peaklist) = Areas(dbLines[j].peaklist)
          /\ \A p \in 1..Len(dbLines[j].peaklist) :
                dbLines[j].peaklist[p].mr # None
                    => dbLines'[j].peaklist[p] = dbLines[j].peaklist[p]
    /\ \A r \in 1..Len(dbRuns) :
          /\ [dbRuns'[r] EXCEPT !.crf_id = 0, !.data_id = 0]
                = [dbRuns[r] EXCEPT !.crf_id = 0, !.data_id = 0]
          /\ dbRuns[r].crf_id # 0 => dbRuns'[r].crf_id = dbRuns[r].crf_id
          /\ dbRuns[r].data_id # 0 => dbRuns'[r].data_id = dbRuns[r].data_id
    /\ \A c \in 1..Len(dbCrfs) : dbCrfs'[c] = dbCrfs[c]
    /\ \A d \in 1..Len(dbData) : dbData'[d] = dbData[d]

\* No record is stored twice: a log file once, a timestamp once per table,
\* a line in one Run, a start date in one Crf, a Datum for one Run.
NoDuplicateInsert ==
    /\ \A i, k \in 1..Len(dbLogs) :
          i # k => dbLogs[i].filename # dbLogs[k].filename
    /\ UniqueDates(dbLines)
    /\ \A r1, r2 \in 1..Len(dbRuns) :
          r1 # r2 => /\ dbRuns[r1].nmhcline_id # dbRuns[r2].nmhcline_id
                     /\ dbRuns[r1].data_id = 0 \/ dbRuns[r1].data_id # dbRuns[r2].data_id
    /\ UniqueCrfStarts(dbCrfs)

PermutationsOf(seq) ==
    {[i \in DOMAIN seq |-> seq[f[i]]] : f \in Orders(DOMAIN seq)}

\* The (metadata record, signal record) pairs of the Runs of a result, by
\* row id.
RunPairs(ret) ==
    {<<ret.runs[k].logfile_id, ret.runs[k].nmhcline_id>> :
        k \in 1..Len(ret.runs)}

\* The final status of every record of a list, by row id.
StatusById(rows) == {<<rows[i].id, rows[i].status>> : i \in 1..Len(rows)}

\* No two Runs of a result took the same signal record.
NoCompetition(ret) ==
    \A k1, k2 \in 1..Len(ret.runs) :
        k1 # k2 => ret.runs[k1].nmhcline_id # ret.runs[k2].nmhcline_id

\* C25: within one call of match_log_to_pa the order of metadata records
\* that do not compete for a signal record is irrelevant: every permutation
\* of the metadata list gives the same set of (metadata record, signal
\* record) Runs and the same final statuses of all records.
C25_OrderOfLogsIrrelevant ==
    (MatchDone /\ NoCompetition(callRet)) =>
        \A perm \in PermutationsOf(callArgs.LogFiles) :
            LET other == match_log_to_pa(perm, callArgs.NmhcLines)
            IN  /\ other.raised = callRet.raised
                /\ RunPairs(other) = RunPairs(callRet)
                /\ StatusById(other.LogFiles) = StatusById(callRet.LogFiles)
                /\ StatusById(other.NmhcLines) = StatusById(callRet.NmhcLines)

\* C25 witness: a call over two metadata records, listed against date
\* order, that were matched to two different signal records while a third
\* signal record stayed single.
C25_Witness ==
    /\ MatchDone
    /\ NoCompetition(callRet)
    /\ Len(callArgs.LogFiles) = 2
    /\ callArgs.LogFiles[1].date > callArgs.LogFiles[2].date
    /\ Len(callRet.runs) = 2
    /\ callRet.runs[1].nmhcline_id # callRet.runs[2].nmhcline_id
    /\ \E j \in 1..Len(callRet.NmhcLines) : callRet.NmhcLines[j].status = "single"


(* A second pass and the frame of check_c4_rts (SpecC4)                    *)

\* C26: check_c4_rts is idempotent: applied a second time to its own
\* result it changes no peak name, so a second pass neither un-labels nor
\* re-labels a peak that the first pass left or set.
C26_SecondPassChangesNoName ==
    C4Done => Names(check_c4_rts(callRet.peaks)) = Names(callRet.peaks)


\* The mixing ratios of a peak list, in list order.
Ratios(peaks) == [p \in DOMAIN peaks |-> peaks[p].mr]

\* The names check_c4_rts writes.
WrittenNames == {"-", "acetylene", "n-butane"}

\* C27: check_c4_rts only ever changes peak names: it adds and removes no
\* peak and changes no area, retention time or mixing ratio; a name that
\* changed is '-', 'acetylene' or 'n-butane' afterwards; and the reference
\* peak, the first peak named i-butane, keeps its name.
C27_OnlyNamesChange ==
    C4Done =>
        /\ Len(callRet.peaks) = Len(callArgs.peaks)
        /\ Areas(callRet.peaks) = Areas(callArgs.peaks)
        /\ Ratios(callRet.peaks) = Ratios(callArgs.peaks)
        /\ \A i \in 1..Len(callArgs.peaks) :
              callRet.peaks[i].name # callArgs.peaks[i].name
                  => callRet.peaks[i].name \in WrittenNames
        /\ HasReference(callArgs.peaks) =>
              callRet.peaks[RefIndex(callArgs.peaks)].name = "i-butane"

\* C27 witness: a call on a list with a reference peak that un-labeled one
\* peak and labeled another, two names changed and nothing else.
C27_Witness ==
    /\ C4Done
    /\ HasReference(callArgs.peaks)
    /\ \E i, k \in 1..Len(callArgs.peaks) :
          /\ callArgs.peaks[i].name # "-"
          /\ callRet.peaks[i].name = "-"
          /\ callArgs.peaks[k].name = "-"
          /\ callRet.peaks[k].name \in TargetCompounds
    /\ Areas(callRet.peaks) = Areas(callArgs.peaks)

=============================================================================
